---- MODULE Spec2Model ----
(***************************************************************************)
(* Model of the log-structured key-value store of src/src/kv.rs (KvStore). *)
(*                                                                         *)
(* A segment file is a sequence of bytes.  One byte of the model is one    *)
(* token of the serde_json text of a Command: the tag, the key, each       *)
(* character of the value and the closing delimiter.  Offsets (locators,   *)
(* stream positions, the uncompacted counter) count these bytes exactly as *)
(* the code counts the bytes of the file.                                  *)
(***************************************************************************)
EXTENDS Integers, Sequences, FiniteSets, TLC

VARIABLES
    disk,         \* the directory: generation -> bytes of <generation>.log
    unlinked,     \* files removed from the directory but still held open
    handle,       \* "closed" (no KvStore value exists) or "open"
    writer,       \* generation of the file KvStore.writer appends to
    readers,      \* key set of KvStore.readers
    cur_gen,      \* KvStore.cur_gen
    index,        \* KvStore.index: key -> [gen, start, end]
    uncompacted,  \* KvStore.uncompacted
    lastOp,       \* the last call made and what it returned
    model,        \* reference in-memory map of the calls that succeeded on this handle
    closeMap,     \* what get returned for every key when the handle was closed
    down,         \* how the previous handle ended ("close", "crash", "panic"), kept
                  \* until the first call on the store opened next; "none" otherwise
    hist,         \* the mappings of the prefixes of the calls applied since the last open
    removed,      \* the keys removed with success and not set since
    faults        \* the number of I/O steps that have failed

vars == <<disk, unlinked, handle, writer, readers, cur_gen, index, uncompacted,
          lastOp, model, closeMap, down, hist, removed, faults>>

----------------------------------------------------------------------------
(* Bounds *)

\* highest generation number a run may allocate
MaxGen == 4

\* most bytes the segment files may hold together when a call starts to append
MaxBytes == 14

\* most I/O steps that fail in one run
MaxFaults == 1

\* most records of the segment that a store of SpecGet was opened on
MaxRecords == 2

\* COMPACTION_THRESHOLD is 1024 * 1024 in the source (kv.rs:13).  It is scaled
\* down to a few records so that compaction happens within the bounds; the
\* comparison made with it is the source's.
COMPACTION_THRESHOLD == 6

Keys == {"a", "b"}

\* BTreeMap<String, _> iterates in ascending key order
KeyOrder == <<"a", "b">>

\* values are strings, here sequences of characters of length 1 and 2
Values == {<<"1">>, <<"2", "2">>}

----------------------------------------------------------------------------
(* Option<String> *)

None == <<>>
Some(v) == <<v>>

----------------------------------------------------------------------------
(* Command and its serde_json encoding *)

SetCmd(k, v) == [op |-> "S", key |-> k, val |-> v]
RemoveCmd(k) == [op |-> "R", key |-> k, val |-> <<>>]

\* serde_json::to_writer(&cmd): {"S":["k","v"]} or {"R":"k"}
Serialize(cmd) ==
    IF cmd.op = "S"
    THEN <<"S", cmd.key>> \o cmd.val \o <<"E">>
    ELSE <<"R", cmd.key, "E">>

\* index (1-based) of the first closing delimiter at or after i, 0 if none
RECURSIVE FindEnd(_, _)
FindEnd(bytes, i) ==
    IF i > Len(bytes) THEN 0
    ELSE IF bytes[i] = "E" THEN i
    ELSE FindEnd(bytes, i + 1)

BadRecord == [ok |-> FALSE, cmd |-> RemoveCmd(""), next |-> 0]

\* One step of the StreamDeserializer at byte offset pos < Len(bytes): the
\* Command decoded and the byte offset after it, or an error for a truncated
\* or malformed record.
DecodeAt(bytes, pos) ==
    LET tag == bytes[pos + 1]
        hasKey == pos + 2 <= Len(bytes) /\ bytes[pos + 2] \in Keys
    IN  IF tag = "S" /\ hasKey
        THEN LET e == FindEnd(bytes, pos + 3)
             IN  IF e = 0 THEN BadRecord
                 ELSE [ok |-> TRUE,
                       cmd |-> SetCmd(bytes[pos + 2], SubSeq(bytes, pos + 3, e - 1)),
                       next |-> e]
        ELSE IF tag = "R" /\ hasKey
        THEN IF pos + 3 <= Len(bytes) /\ bytes[pos + 3] = "E"
             THEN [ok |-> TRUE, cmd |-> RemoveCmd(bytes[pos + 2]), next |-> pos + 3]
             ELSE BadRecord
        ELSE BadRecord

\* serde_json::from_reader on a whole input: exactly one Command and nothing after it
DecodeExact(bytes) ==
    IF Len(bytes) = 0 THEN BadRecord
    ELSE LET d == DecodeAt(bytes, 0)
         IN  IF d.ok /\ d.next = Len(bytes) THEN d ELSE BadRecord

----------------------------------------------------------------------------
(* The index: BTreeMap<String, (u64, u64, u64)> *)

EmptyIndex == [k \in {} |-> 0]

Loc(g, s, e) == [gen |-> g, start |-> s, end |-> e]

IndexInsert(idx, k, loc) ==
    [x \in DOMAIN idx \cup {k} |-> IF x = k THEN loc ELSE idx[x]]

IndexRemove(idx, k) == [x \in DOMAIN idx \ {k} |-> idx[x]]

----------------------------------------------------------------------------
(* Files *)

EmptyDir == [g \in {} |-> <<>>]

\* the file of generation g as seen through a handle opened on it
Content(dir, orphans, g) ==
    IF g \in DOMAIN dir THEN dir[g]
    ELSE IF g \in DOMAIN orphans THEN orphans[g]
    ELSE <<>>

WriteFile(dir, g, bytes) ==
    [x \in DOMAIN dir \cup {g} |-> IF x = g THEN bytes ELSE dir[x]]

RemoveFiles(dir, gens) == [x \in DOMAIN dir \ gens |-> dir[x]]

Max(S) == CHOOSE x \in S : \A y \in S : y <= x
Min(S) == CHOOSE x \in S : \A y \in S : x <= y

\* the bytes of all the files of the directory
RECURSIVE TotalBytes(_)
TotalBytes(dir) ==
    IF DOMAIN dir = {} THEN 0
    ELSE LET g == Min(DOMAIN dir)
         IN  Len(dir[g]) + TotalBytes(RemoveFiles(dir, {g}))

\* the elements of a set of generations in ascending order
RECURSIVE Sorted(_)
Sorted(S) == IF S = {} THEN <<>> ELSE <<Min(S)>> \o Sorted(S \ {Min(S)})

\* the elements of a set of generations in descending order
RECURSIVE SortedDescending(_)
SortedDescending(S) ==
    IF S = {} THEN <<>> ELSE <<Max(S)>> \o SortedDescending(S \ {Max(S)})

----------------------------------------------------------------------------
(* KvStore::get *)

\* mutant: the read is not limited to end - start bytes and runs to the end of
\* the file
ReadRangeToEnd(bytes, start, end) == SubSeq(bytes, start + 1, Len(bytes))

\* reader.seek(SeekFrom::Start(start)); reader.take(end - start): the bytes read,
\* fewer than end - start when the file ends first
ReadRange(bytes, start, end) ==
    SubSeq(bytes, start + 1, IF end <= Len(bytes) THEN end ELSE Len(bytes))

\* What get(k) returns on a store with index idx, read-handle table rdrs and
\* files dir/orphans: "ok" with Some(v) or None, "err" for a serde_json error,
\* "panic" when the table has no reader for the locator's generation.
GetResult(idx, rdrs, dir, orphans, k) ==
    IF k \notin DOMAIN idx THEN [res |-> "ok", out |-> None]
    ELSE LET loc == idx[k]
         IN  IF loc.gen \notin rdrs THEN [res |-> "panic", out |-> None]
             ELSE LET d == DecodeExact(ReadRange(Content(dir, orphans, loc.gen),
                                                 loc.start, loc.end))
                  IN  IF ~d.ok THEN [res |-> "err", out |-> None]
                      ELSE IF d.cmd.op = "S" THEN [res |-> "ok", out |-> Some(d.cmd.val)]
                      ELSE [res |-> "ok", out |-> None]

\* get(k) on the store st
GetCall(st, k) == GetResult(st.index, st.readers, st.disk, st.unlinked, k)

----------------------------------------------------------------------------
(* KvStore::open *)

\* mutant: the generations are replayed newest first
GenListDescending(dir) == SortedDescending(DOMAIN dir)

\* the generations of the <generation>.log files, sorted ascending
GenList(dir) == Sorted(DOMAIN dir)

\* mutant: the replay loop leaves the index alone on a Remove
ApplyCmdIgnoresRemove(idx, cmd, gen_id, pos, new_pos) ==
    IF cmd.op = "S"
    THEN IndexInsert(idx, cmd.key, Loc(gen_id, pos, new_pos))
    ELSE idx

\* the match of the replay loop: a Set inserts the locator, a Remove deletes the key
ApplyCmd(idx, cmd, gen_id, pos, new_pos) ==
    IF cmd.op = "S"
    THEN IndexInsert(idx, cmd.key, Loc(gen_id, pos, new_pos))
    ELSE IndexRemove(idx, cmd.key)

\* mutant: the loop ends at a record that does not decode, without an error
RECURSIVE ReplaySegmentSkipsBad(_, _, _, _)
ReplaySegmentSkipsBad(bytes, gen_id, pos, idx) ==
    IF pos >= Len(bytes) THEN [ok |-> TRUE, index |-> idx, pos |-> pos]
    ELSE LET d == DecodeAt(bytes, pos)
         IN  IF ~d.ok THEN [ok |-> TRUE, index |-> idx, pos |-> pos]
             ELSE ReplaySegmentSkipsBad(bytes, gen_id, d.next,
                                        ApplyCmd(idx, d.cmd, gen_id, pos, d.next))

\* the while loop over one segment, from byte offset pos
RECURSIVE ReplaySegment(_, _, _, _)
ReplaySegment(bytes, gen_id, pos, idx) ==
    IF pos >= Len(bytes) THEN [ok |-> TRUE, index |-> idx, pos |-> pos]
    ELSE LET d == DecodeAt(bytes, pos)
         IN  IF ~d.ok THEN [ok |-> FALSE, index |-> idx, pos |-> pos]
             ELSE ReplaySegment(bytes, gen_id, d.next,
                                ApplyCmd(idx, d.cmd, gen_id, pos, d.next))

\* mutant: the counter is assigned the final offset of the segment, not raised
\* by it
RECURSIVE ReplayAllLastOnly(_, _, _, _)
ReplayAllLastOnly(dir, gen_list, idx, unc) ==
    IF gen_list = <<>> THEN [ok |-> TRUE, index |-> idx, uncompacted |-> unc]
    ELSE LET r == ReplaySegment(dir[Head(gen_list)], Head(gen_list), 0, idx)
         IN  IF ~r.ok THEN [ok |-> FALSE, index |-> idx, uncompacted |-> unc]
             ELSE ReplayAllLastOnly(dir, Tail(gen_list), r.index, r.pos)

\* the for loop over gen_list
RECURSIVE ReplayAll(_, _, _, _)
ReplayAll(dir, gen_list, idx, unc) ==
    IF gen_list = <<>> THEN [ok |-> TRUE, index |-> idx, uncompacted |-> unc]
    ELSE LET r == ReplaySegment(dir[Head(gen_list)], Head(gen_list), 0, idx)
         IN  IF ~r.ok THEN [ok |-> FALSE, index |-> idx, uncompacted |-> unc]
             ELSE ReplayAll(dir, Tail(gen_list), r.index, unc + r.pos)

\* mutant: the new generation is the number of segments found plus one
NextGenByCount(gen_list) == Len(gen_list) + 1

\* gen_list.last().unwrap_or(&0) + 1
NextGen(gen_list) ==
    IF gen_list = <<>> THEN 1 ELSE gen_list[Len(gen_list)] + 1

----------------------------------------------------------------------------
(* KvStore::compact *)

\* mutant: the loop never advances pos, every locator starts at offset 0
RECURSIVE CopyLiveNoAdvance(_, _, _, _, _, _, _, _)
CopyLiveNoAdvance(i, idx, rdrs, dir, orphans, compaction_gen, pos, out) ==
    IF i > Len(KeyOrder) THEN [panic |-> FALSE, index |-> idx, out |-> out]
    ELSE IF KeyOrder[i] \notin DOMAIN idx
    THEN CopyLiveNoAdvance(i + 1, idx, rdrs, dir, orphans, compaction_gen, pos, out)
    ELSE LET k == KeyOrder[i]
             loc == idx[k]
             chunk == ReadRange(Content(dir, orphans, loc.gen), loc.start, loc.end)
             len == Len(chunk)
         IN  IF loc.gen \notin rdrs THEN [panic |-> TRUE, index |-> idx, out |-> out]
             ELSE CopyLiveNoAdvance(i + 1,
                                    IndexInsert(idx, k, Loc(compaction_gen, pos, pos + len)),
                                    rdrs, dir, orphans, compaction_gen, pos, out \o chunk)

\* mutant: the loop copies the record and moves the offsets but leaves the
\* generation of the locator
RECURSIVE CopyLiveKeepsGen(_, _, _, _, _, _, _, _)
CopyLiveKeepsGen(i, idx, rdrs, dir, orphans, compaction_gen, pos, out) ==
    IF i > Len(KeyOrder) THEN [panic |-> FALSE, index |-> idx, out |-> out]
    ELSE IF KeyOrder[i] \notin DOMAIN idx
    THEN CopyLiveKeepsGen(i + 1, idx, rdrs, dir, orphans, compaction_gen, pos, out)
    ELSE LET k == KeyOrder[i]
             loc == idx[k]
             chunk == ReadRange(Content(dir, orphans, loc.gen), loc.start, loc.end)
             len == Len(chunk)
         IN  IF loc.gen \notin rdrs THEN [panic |-> TRUE, index |-> idx, out |-> out]
             ELSE CopyLiveKeepsGen(i + 1,
                                   IndexInsert(idx, k, Loc(loc.gen, pos, pos + len)),
                                   rdrs, dir, orphans, compaction_gen, pos + len,
                                   out \o chunk)

\* The loop over index.values_mut(), from the i-th key in iteration order: each
\* live record is copied to the compaction file (out) and its locator is
\* redirected to (compaction_gen, pos, pos + len).
RECURSIVE CopyLive(_, _, _, _, _, _, _, _)
CopyLive(i, idx, rdrs, dir, orphans, compaction_gen, pos, out) ==
    IF i > Len(KeyOrder) THEN [panic |-> FALSE, index |-> idx, out |-> out]
    ELSE IF KeyOrder[i] \notin DOMAIN idx
    THEN CopyLive(i + 1, idx, rdrs, dir, orphans, compaction_gen, pos, out)
    ELSE LET k == KeyOrder[i]
             loc == idx[k]
             chunk == ReadRange(Content(dir, orphans, loc.gen), loc.start, loc.end)
             len == Len(chunk)
         IN  IF loc.gen \notin rdrs THEN [panic |-> TRUE, index |-> idx, out |-> out]
             ELSE CopyLive(i + 1,
                           IndexInsert(idx, k, Loc(compaction_gen, pos, pos + len)),
                           rdrs, dir, orphans, compaction_gen, pos + len, out \o chunk)

\* mutant: the old segments are removed newest first
RemovalOrderDescending(rdrs) == SortedDescending(rdrs)

\* self.readers.keys(): the generations of the read-handle table in the order
\* the remove_file loop visits them (BTreeMap: ascending)
RemovalOrder(rdrs) == Sorted(rdrs)

NoFault == [site |-> "none", n |-> 0]

\* The files of gens, removed from the directory, stay readable through the
\* handles that are open on them.
Orphaned(dir, orphans, gens) ==
    [g \in DOMAIN orphans \cup (gens \cap DOMAIN dir) |-> Content(dir, orphans, g)]

\* mutant: the remove_file loop spares the segment the writer appends to
CompactKeepsCurrent(st, fault) ==
    LET compaction_gen == st.cur_gen + 1
        copy == CopyLive(1, st.index, st.readers, st.disk, st.unlinked,
                         compaction_gen, 0, <<>>)
        copied == [st EXCEPT !.index = copy.index,
                             !.disk = WriteFile(st.disk, compaction_gen, copy.out)]
        flushed == [copied EXCEPT !.uncompacted = 0]
        old == st.readers \ {st.cur_gen}
        deleted == [flushed EXCEPT !.disk = RemoveFiles(flushed.disk, old),
                                   !.unlinked = Orphaned(flushed.disk, st.unlinked, old)]
        done == [deleted EXCEPT !.cur_gen = st.cur_gen + 2,
                                !.disk = WriteFile(deleted.disk, st.cur_gen + 2, <<>>),
                                !.unlinked = EmptyDir,
                                !.writer = st.cur_gen + 2,
                                !.readers = {compaction_gen, st.cur_gen + 2}]
    IN  IF copy.panic THEN [st |-> copied, res |-> "panic"]
        ELSE [st |-> done, res |-> "ok"]

\* compact() on the store st = [disk, unlinked, writer, readers, cur_gen, index,
\* uncompacted], with an I/O fault at fault.site (none: every step succeeds).
\* The result is the store it leaves and what it returned: "ok", "io" for an
\* I/O error, "panic" for the missing-reader expect.
Compact(st, fault) ==
    LET compaction_gen == st.cur_gen + 1
        copy == CopyLive(1, st.index, st.readers, st.disk, st.unlinked,
                         compaction_gen, 0, <<>>)
        copied == [st EXCEPT !.index = copy.index,
                             !.disk = WriteFile(st.disk, compaction_gen, copy.out)]
        flushed == [copied EXCEPT !.uncompacted = 0]
        keys == RemovalOrder(st.readers)
        \* remove_file fails at the first file that is not in the directory
        gone == {j \in 1..Len(keys) : keys[j] \notin DOMAIN flushed.disk}
        stop == IF fault.site = "remove" THEN fault.n + 1
                ELSE IF gone # {} THEN Min(gone)
                ELSE Len(keys) + 1
        old == {keys[j] : j \in 1..(stop - 1)}
        deleted == [flushed EXCEPT !.disk = RemoveFiles(flushed.disk, old),
                                   !.unlinked = Orphaned(flushed.disk, st.unlinked, old)]
        bumped == [deleted EXCEPT !.cur_gen = st.cur_gen + 2]
        done == [bumped EXCEPT !.disk = WriteFile(deleted.disk, st.cur_gen + 2, <<>>),
                               !.unlinked = EmptyDir,
                               !.writer = st.cur_gen + 2,
                               !.readers = {compaction_gen, st.cur_gen + 2}]
    IN  IF fault.site = "create" \/ compaction_gen \in DOMAIN st.disk
        THEN [st |-> st, res |-> "io"]
        ELSE IF copy.panic THEN [st |-> copied, res |-> "panic"]
        ELSE IF stop <= Len(keys) THEN [st |-> deleted, res |-> "io"]
        ELSE IF fault.site = "create_cur" \/ (st.cur_gen + 2) \in DOMAIN deleted.disk
        THEN [st |-> bumped, res |-> "io"]
        ELSE [st |-> done, res |-> "ok"]

----------------------------------------------------------------------------
(* KvStore::open, set, remove as functions of the store *)

\* the KvStore value and the directory it works on
Store ==
    [disk |-> disk, unlinked |-> unlinked, writer |-> writer, readers |-> readers,
     cur_gen |-> cur_gen, index |-> index, uncompacted |-> uncompacted]

\* no KvStore value: only the directory dir exists
NoStore(dir) ==
    [disk |-> dir, unlinked |-> EmptyDir, writer |-> 0, readers |-> {},
     cur_gen |-> 0, index |-> EmptyIndex, uncompacted |-> 0]

\* open(path) on the directory dir, with an I/O fault at fault.site ("replay":
\* File::open of a segment or a read of the replay fails): the store it
\* returns, or an error ("io", or "err" for a record that does not decode) and
\* no store
OpenCall(dir, fault) ==
    LET gen_list == GenList(dir)
        r == ReplayAll(dir, gen_list, EmptyIndex, 0)
        new_gen == NextGen(gen_list)
    IN  IF fault.site = "replay" /\ gen_list # <<>> THEN [res |-> "io", st |-> NoStore(dir)]
        ELSE IF ~r.ok THEN [res |-> "err", st |-> NoStore(dir)]
        ELSE [res |-> "ok",
              st |-> [disk |-> WriteFile(dir, new_gen, <<>>),
                      unlinked |-> EmptyDir,
                      writer |-> new_gen,
                      readers |-> DOMAIN dir \cup {new_gen},
                      cur_gen |-> new_gen,
                      index |-> r.index,
                      uncompacted |-> r.uncompacted]]

\* mutant: the position is not taken from the writer and stays 0
StreamPositionZero(st) == 0

\* self.writer.stream_position(): the writer appends to a file that was created
\* empty, so its position is the length of that file
StreamPosition(st) == Len(Content(st.disk, st.unlinked, st.writer))

\* to_writer + flush: bytes are appended to the file the writer holds
AppendBytes(st, bytes) ==
    LET all == Content(st.disk, st.unlinked, st.writer) \o bytes
    IN  IF st.writer \in DOMAIN st.disk
        THEN [st EXCEPT !.disk = WriteFile(st.disk, st.writer, all)]
        ELSE [st EXCEPT !.unlinked = WriteFile(st.unlinked, st.writer, all)]

\* mutant: set leaves the locator of a key that is already in the index
SetNoCompactKeepsLocator(st, k, v) ==
    LET before == StreamPosition(st)
        written == AppendBytes(st, Serialize(SetCmd(k, v)))
        after == StreamPosition(written)
    IN  [written EXCEPT !.index = IF k \in DOMAIN st.index THEN st.index
                                  ELSE IndexInsert(st.index, k,
                                                   Loc(st.cur_gen, before, after)),
                        !.uncompacted = st.uncompacted + (after - before)]

\* lines 86-92 of set: the store after the append and the index update, before
\* the threshold is looked at
SetNoCompact(st, k, v) ==
    LET before == StreamPosition(st)
        written == AppendBytes(st, Serialize(SetCmd(k, v)))
        after == StreamPosition(written)
    IN  [written EXCEPT !.index = IndexInsert(st.index, k, Loc(st.cur_gen, before, after)),
                        !.uncompacted = st.uncompacted + (after - before)]

\* mutant: the threshold is compared with the position of the writer, not
\* with the counter
MustCompactByPosition(st) == StreamPosition(st) > COMPACTION_THRESHOLD

\* whether set runs the compactor on the store it has just written to
MustCompact(st) == st.uncompacted > COMPACTION_THRESHOLD

\* mutant: get runs the compactor when the counter is over the threshold
GetEffectCompacts(st, k) ==
    IF MustCompact(st) THEN Compact(st, NoFault).st ELSE st

\* the store get leaves: get takes the index by shared reference, seeks and reads
\* through a reader, and writes to no file and to no field
GetEffect(st, k) == st

\* set(k, v), with an I/O fault at fault.site
SetCall(st, k, v, fault) ==
    LET inserted == SetNoCompact(st, k, v)
    IN  IF fault.site = "write" THEN [st |-> st, res |-> "io", compacted |-> FALSE]
        ELSE IF MustCompact(inserted)
        THEN LET c == Compact(inserted, fault)
             IN  [st |-> c.st, res |-> c.res, compacted |-> TRUE]
        ELSE [st |-> inserted, res |-> "ok", compacted |-> FALSE]

\* mutant: remove appends the Remove record before it looks at the index
RemoveCallAlwaysAppends(st, k, fault) ==
    IF k \in DOMAIN st.index
    THEN [st |-> [AppendBytes(st, Serialize(RemoveCmd(k)))
                     EXCEPT !.index = IndexRemove(st.index, k)],
          res |-> "ok"]
    ELSE [st |-> AppendBytes(st, Serialize(RemoveCmd(k))), res |-> "KeyNotFound"]

\* remove(k), with an I/O fault at fault.site
RemoveCall(st, k, fault) ==
    IF k \in DOMAIN st.index
    THEN IF fault.site = "write" THEN [st |-> st, res |-> "io"]
         ELSE [st |-> [AppendBytes(st, Serialize(RemoveCmd(k)))
                          EXCEPT !.index = IndexRemove(st.index, k)],
               res |-> "ok"]
    ELSE [st |-> st, res |-> "KeyNotFound"]

----------------------------------------------------------------------------
(* Bookkeeping of the calls *)

Call(op, k, v, res, out, compacted) ==
    [op |-> op, key |-> k, val |-> v, res |-> res, out |-> out, compacted |-> compacted]

NoMap == [k \in Keys |-> None]

NoObserved == [k \in Keys |-> [res |-> "ok", out |-> None]]

\* the value get returns for every key of the store st
MapOf(st) == [k \in Keys |-> GetResult(st.index, st.readers, st.disk, st.unlinked, k).out]

\* what get returns (result and value) for every key of the current store
Observed == [k \in Keys |-> GetCall(Store, k)]

Install(st) ==
    /\ disk' = st.disk
    /\ unlinked' = st.unlinked
    /\ writer' = st.writer
    /\ readers' = st.readers
    /\ cur_gen' = st.cur_gen
    /\ index' = st.index
    /\ uncompacted' = st.uncompacted

\* the process ends: the KvStore value is gone, the directory dir is what remains
Drop(dir, how) ==
    /\ Install(NoStore(dir))
    /\ handle' = "closed"
    /\ down' = how
    /\ model' = NoMap

Init ==
    /\ handle = "closed"
    /\ disk = EmptyDir
    /\ unlinked = EmptyDir
    /\ writer = 0
    /\ readers = {}
    /\ cur_gen = 0
    /\ index = EmptyIndex
    /\ uncompacted = 0
    /\ lastOp = Call("none", "", <<>>, "ok", None, FALSE)
    /\ model = NoMap
    /\ closeMap = NoObserved
    /\ down = "none"
    /\ hist = {}
    /\ removed = {}
    /\ faults = 0

----------------------------------------------------------------------------
(* Actions: the calls of the owning process *)

\* a call ended with result res and left the store st; applied is the reference
\* map with the call applied
Finish(st, res, call, applied) ==
    /\ lastOp' = call
    /\ removed' = IF res = "panic" THEN {}
                  ELSE IF call.op = "set" THEN removed \ {call.key}
                  ELSE IF call.op = "remove" /\ res = "ok" THEN removed \cup {call.key}
                  ELSE removed
    /\ hist' = IF res = "ok" THEN hist \cup {applied} ELSE hist
    /\ closeMap' = NoObserved
    /\ IF res = "panic"
       THEN Drop(st.disk, "panic")
       ELSE /\ Install(st)
            /\ handle' = "open"
            /\ model' = IF res = "ok" THEN applied ELSE model
            /\ down' = "none"

\* open returned r
Opened(r) ==
    /\ r.res = "ok" => r.st.cur_gen <= MaxGen
    /\ Install(r.st)
    /\ handle' = IF r.res = "ok" THEN "open" ELSE "closed"
    /\ lastOp' = Call("open", "", <<>>, r.res, None, FALSE)
    /\ model' = IF r.res = "ok" THEN MapOf(r.st) ELSE NoMap
    /\ hist' = IF r.res = "ok" THEN {MapOf(r.st)} ELSE hist
    /\ UNCHANGED <<closeMap, down, removed>>

Open ==
    /\ UNCHANGED faults
    /\ handle = "closed"
    /\ Opened(OpenCall(disk, NoFault))

\* open in which an I/O step of the replay fails
OpenFault ==
    /\ UNCHANGED faults
    /\ handle = "closed"
    /\ DOMAIN disk # {}
    /\ Opened(OpenCall(disk, [site |-> "replay", n |-> 0]))

\* the files have room for the record of cmd
Room(cmd) == TotalBytes(disk) + Len(Serialize(cmd)) <= MaxBytes

Set(k, v) ==
    /\ UNCHANGED faults
    /\ handle = "open"
    /\ Room(SetCmd(k, v))
    /\ LET r == SetCall(Store, k, v, NoFault)
       IN  /\ r.compacted => cur_gen + 2 <= MaxGen
           /\ Finish(r.st, r.res, Call("set", k, v, r.res, None, r.compacted),
                     [model EXCEPT ![k] = Some(v)])

Get(k) ==
    /\ UNCHANGED faults
    /\ handle = "open"
    /\ LET r == GetCall(Store, k)
       IN  Finish(GetEffect(Store, k), r.res, Call("get", k, <<>>, r.res, r.out, FALSE),
                  model)

Remove(k) ==
    /\ UNCHANGED faults
    /\ handle = "open"
    /\ k \in DOMAIN index => Room(RemoveCmd(k))
    /\ LET r == RemoveCall(Store, k, NoFault)
       IN  Finish(r.st, r.res, Call("remove", k, <<>>, r.res, None, FALSE),
                  [model EXCEPT ![k] = None])

\* the handle goes out of scope
Close ==
    /\ UNCHANGED faults
    /\ handle = "open"
    /\ closeMap' = Observed
    /\ Drop(disk, "close")
    /\ lastOp' = Call("close", "", <<>>, "ok", None, FALSE)
    /\ hist' = {}
    /\ UNCHANGED removed

----------------------------------------------------------------------------
(* Actions: the process stops at some point of a call *)

\* the process stops in the call interrupted (op "crash", with the key and
\* value of the call when it stopped inside its compaction)
CrashedIn(dir, applied, interrupted) ==
    /\ Drop(dir, "crash")
    /\ lastOp' = interrupted
    /\ hist' = hist \cup applied
    /\ closeMap' = NoObserved
    /\ removed' = {}

Crashed(dir, applied) ==
    CrashedIn(dir, applied, Call("crash", "", <<>>, "ok", None, FALSE))

\* between two calls
CrashIdle ==
    /\ UNCHANGED faults
    /\ handle = "open"
    /\ Crashed(disk, {})

\* in set(k, v), when the first n bytes of the record have reached the file
CrashInSet(k, v) ==
    /\ UNCHANGED faults
    /\ handle = "open"
    /\ Room(SetCmd(k, v))
    /\ \E n \in 1..Len(Serialize(SetCmd(k, v))) :
          Crashed(AppendBytes(Store, SubSeq(Serialize(SetCmd(k, v)), 1, n)).disk,
                  {[model EXCEPT ![k] = Some(v)]})

\* in remove(k), when the first n bytes of the record have reached the file
CrashInRemove(k) ==
    /\ UNCHANGED faults
    /\ handle = "open"
    /\ Room(RemoveCmd(k))
    /\ k \in DOMAIN index
    /\ \E n \in 1..Len(Serialize(RemoveCmd(k))) :
          Crashed(AppendBytes(Store, SubSeq(Serialize(RemoveCmd(k)), 1, n)).disk,
                  {[model EXCEPT ![k] = None]})

\* in the compaction that set(k, v) runs: when the first n bytes of the
\* compaction file have reached it or, with the whole file written, when the
\* first d files of readers.keys() have been removed
CrashInCompact(k, v) ==
    /\ UNCHANGED faults
    /\ handle = "open"
    /\ Room(SetCmd(k, v))
    /\ cur_gen + 2 <= MaxGen
    /\ LET st == SetNoCompact(Store, k, v)
           compaction_gen == st.cur_gen + 1
           copy == CopyLive(1, st.index, st.readers, st.disk, st.unlinked,
                            compaction_gen, 0, <<>>)
           keys == RemovalOrder(st.readers)
       IN  /\ MustCompact(st)
           /\ compaction_gen \notin DOMAIN st.disk
           /\ \E n \in 0..Len(copy.out), d \in 0..Len(keys) :
                 /\ d > 0 => n = Len(copy.out)
                 /\ CrashedIn(RemoveFiles(WriteFile(st.disk, compaction_gen,
                                                    SubSeq(copy.out, 1, n)),
                                          {keys[j] : j \in 1..d}),
                              {[model EXCEPT ![k] = Some(v)]},
                              Call("crash", k, v, "ok", None, TRUE))

----------------------------------------------------------------------------
(* Specification: every I/O step of set, remove and compact succeeds; the    *)
(* replay of open may fail; the process may stop anywhere                    *)

Next ==
    \/ Open
    \/ OpenFault
    \/ Close
    \/ \E k \in Keys, v \in Values : Set(k, v)
    \/ \E k \in Keys : Get(k)
    \/ \E k \in Keys : Remove(k)
    \/ CrashIdle
    \/ \E k \in Keys, v \in Values : CrashInSet(k, v)
    \/ \E k \in Keys : CrashInRemove(k)
    \/ \E k \in Keys, v \in Values : CrashInCompact(k, v)

Spec == Init /\ [][Next]_vars

----------------------------------------------------------------------------
(* Specification: as Spec, and an I/O step of set, remove or compact may fail *)

\* the steps that may fail: the append (to_writer, flush), the create_new of the
\* compaction file, the remove_file of the (n+1)-th old segment, the create_new
\* of the new current segment
Faults ==
    {[site |-> x, n |-> 0] : x \in {"write", "create", "create_cur"}}
        \cup {[site |-> "remove", n |-> d] : d \in 0..MaxGen}

\* set(k, v) in which the step fault.site fails
SetFault(k, v, fault) ==
    /\ handle = "open"
    /\ faults < MaxFaults
    /\ faults' = faults + 1
    /\ Room(SetCmd(k, v))
    /\ fault.site = "remove" => fault.n < Cardinality(readers)
    /\ LET r == SetCall(Store, k, v, fault)
       IN  /\ r.compacted => cur_gen + 2 <= MaxGen
           /\ r.res # "ok"
           /\ Finish(r.st, r.res, Call("set", k, v, r.res, None, r.compacted),
                     [model EXCEPT ![k] = Some(v)])

\* remove(k) in which the append fails
RemoveFault(k) ==
    /\ handle = "open"
    /\ faults < MaxFaults
    /\ faults' = faults + 1
    /\ k \in DOMAIN index
    /\ LET r == RemoveCall(Store, k, [site |-> "write", n |-> 0])
       IN  Finish(r.st, r.res, Call("remove", k, <<>>, r.res, None, FALSE),
                  [model EXCEPT ![k] = None])

NextIO ==
    \/ Next
    \/ \E k \in Keys, v \in Values, fault \in Faults : SetFault(k, v, fault)
    \/ \E k \in Keys : RemoveFault(k)

SpecIO == Init /\ [][NextIO]_vars

----------------------------------------------------------------------------
(* Definitions the properties are stated with *)

AllCmds ==
    {SetCmd(k, v) : k \in Keys, v \in Values} \cup {RemoveCmd(k) : k \in Keys}

\* the commands whose serialized text stands at byte offset pos of bytes
RecordAt(bytes, pos) ==
    {cmd \in AllCmds :
        /\ pos + Len(Serialize(cmd)) <= Len(bytes)
        /\ SubSeq(bytes, pos + 1, pos + Len(Serialize(cmd))) = Serialize(cmd)}

\* the whole records of a segment from byte offset pos on, each with its place
RECURSIVE RecordsOf(_, _, _)
RecordsOf(bytes, g, pos) ==
    IF RecordAt(bytes, pos) = {} THEN <<>>
    ELSE LET cmd == CHOOSE c \in RecordAt(bytes, pos) : TRUE
             next == pos + Len(Serialize(cmd))
         IN  <<[gen |-> g, start |-> pos, end |-> next, cmd |-> cmd]>>
                 \o RecordsOf(bytes, g, next)

RECURSIVE RecordBytes(_)
RecordBytes(rs) ==
    IF rs = <<>> THEN 0 ELSE (Head(rs).end - Head(rs).start) + RecordBytes(Tail(rs))

\* a segment that is a concatenation of serialized commands and nothing else
WholeRecords(bytes) == RecordBytes(RecordsOf(bytes, 0, 0)) = Len(bytes)

\* some segment of the directory ends in a truncated record
Corrupt(dir) == \E g \in DOMAIN dir : ~WholeRecords(dir[g])

\* the log: the records of all segments in ascending generation order
RECURSIVE LogOf(_, _)
LogOf(dir, gens) ==
    IF gens = <<>> THEN <<>>
    ELSE RecordsOf(dir[Head(gens)], Head(gens), 0) \o LogOf(dir, Tail(gens))

\* the records of the log that name key k
LogFor(k) ==
    LET IsK(r) == r.cmd.key = k
    IN  SelectSeq(LogOf(disk, Sorted(DOMAIN disk)), IsK)

\* no segment holds a Remove record of key k
NoTombstone(k) == \A i \in 1..Len(LogFor(k)) : LogFor(k)[i].cmd.op = "S"

Found(v) == [res |-> "ok", out |-> Some(v)]
NotFound == [res |-> "ok", out |-> None]

\* the store on which the compaction of the set recorded in call starts:
\* lines 86-92 have run
AtCompaction(call) == SetNoCompact(Store, call.key, call.val)

\* the index when the remove_file loop runs: every locator has been redirected
IndexAtRemoval(st) ==
    CopyLive(1, st.index, st.readers, st.disk, st.unlinked, st.cur_gen + 1, 0, <<>>).index

\* the generations the remove_file loop deletes
Deleted(st) == {RemovalOrder(st.readers)[j] : j \in 1..Len(RemovalOrder(st.readers))}

\* the keys of the index idx in iteration order
LiveKeys(idx) ==
    LET Live(k) == k \in DOMAIN idx
    IN  SelectSeq(KeyOrder, Live)

\* the sum of the lengths of the ranges that idx gives the keys of the sequence ks
RECURSIVE SumLen(_, _)
SumLen(idx, ks) ==
    IF ks = <<>> THEN 0
    ELSE (idx[Head(ks)].end - idx[Head(ks)].start) + SumLen(idx, Tail(ks))

\* the bytes of the stale records of the directory dir under the index idx:
\* every Remove record and every Set record that is not the one the locator
\* of its key names
StaleBytes(dir, idx) ==
    LET Stale(r) ==
            \/ r.cmd.op = "R"
            \/ r.cmd.key \notin DOMAIN idx
            \/ idx[r.cmd.key] # Loc(r.gen, r.start, r.end)
    IN  RecordBytes(SelectSeq(LogOf(dir, Sorted(DOMAIN dir)), Stale))

----------------------------------------------------------------------------
(* Specification: get on a store whose index need not agree with its segment *)

\* serde_json::to_writer of each command of cmds in turn
RECURSIVE Encode(_)
Encode(cmds) == IF cmds = <<>> THEN <<>> ELSE Serialize(Head(cmds)) \o Encode(Tail(cmds))

\* the segments of 1 to MaxRecords whole records
Segments == {Encode(cmds) : cmds \in UNION {[1..n -> AllCmds] : n \in 1..MaxRecords}}

\* the byte ranges of the whole records of segment g
LocsOf(bytes, g) ==
    {Loc(g, RecordsOf(bytes, g, 0)[i].start, RecordsOf(bytes, g, 0)[i].end) :
        i \in 1..Len(RecordsOf(bytes, g, 0))}

\* A KvStore opened on a directory that held segment 1, with current segment 2:
\* every key of the index names a whole record of segment 1.  The index is
\* the one the replay builds, or any other: one whose locator names a record
\* of another key or a Remove record is the internal corruption of the store.
InitGet ==
    \E bytes \in Segments :
        \E idx \in UNION {[K -> LocsOf(bytes, 1)] : K \in SUBSET Keys} :
            /\ handle = "open"
            /\ disk = WriteFile(WriteFile(EmptyDir, 1, bytes), 2, <<>>)
            /\ unlinked = EmptyDir
            /\ writer = 2
            /\ readers = {1, 2}
            /\ cur_gen = 2
            /\ index = idx
            /\ uncompacted = Len(bytes)
            /\ lastOp = Call("open", "", <<>>, "ok", None, FALSE)
            /\ model = NoMap
            /\ closeMap = NoObserved
            /\ down = "none"
            /\ hist = {}
            /\ removed = {}
            /\ faults = 0

NextGet == \E k \in Keys : Get(k)

SpecGet == InitGet /\ [][NextGet]_vars

----------------------------------------------------------------------------
(* Properties *)

\* C1: on an open handle on which every call has succeeded, get(k) returns for
\* every key the value of the most recent set(k, v) that no successful
\* remove(k) followed, and not-found when there is none: the store agrees
\* with the reference map.
C1_GetMatchesReference ==
    handle = "open" =>
        \A k \in Keys : GetCall(Store, k) = [res |-> "ok", out |-> model[k]]

\* a was set to "1", that record went into another segment, and a was then
\* set to "22" in the current segment
C1_Witness ==
    /\ handle = "open"
    /\ lastOp = Call("set", "a", <<"2", "2">>, "ok", None, FALSE)
    /\ \E g \in DOMAIN disk \ {cur_gen} : disk[g] = Serialize(SetCmd("a", <<"1">>))
    /\ index["a"].gen = cur_gen
    /\ model["a"] = Some(<<"2", "2">>)

\* C2: an open that follows a clean close, and in which no I/O step fails,
\* succeeds and get returns for every key what it returned right before the
\* close.
C2_ReopenSame ==
    (lastOp.op = "open" /\ lastOp.res # "io" /\ down = "close") =>
        (lastOp.res = "ok" /\ handle = "open" /\ Observed = closeMap)

\* set(a, _); set(b, "22"); remove(a); close; open
C2_Witness ==
    /\ lastOp.op = "open"
    /\ lastOp.res = "ok"
    /\ down = "close"
    /\ "a" \in removed
    /\ closeMap["a"] = NotFound
    /\ closeMap["b"] = Found(<<"2", "2">>)

\* C3: after a crash at any point of a set, a remove or a compaction, the next
\* open (no I/O step of it failing) succeeds and the mapping it exposes is the
\* mapping of a prefix of the calls applied before the crash.
C3_CrashPrefix ==
    [][(handle = "closed" /\ down = "crash" /\ lastOp'.op = "open"
            /\ lastOp'.res # "io") =>
           (lastOp'.res = "ok" /\ MapOf(Store)' \in hist)]_vars

\* C4: a set that runs the compactor leaves, for every key, the get result of
\* the same set without the compaction.
C4_CompactionTransparent ==
    [][(lastOp'.op = "set" /\ lastOp'.res = "ok" /\ lastOp'.compacted) =>
           \A k \in Keys :
               GetCall(Store, k)'
                   = GetCall(SetNoCompact(Store, lastOp'.key, lastOp'.val), k)]_vars

\* a compaction that copied both keys
C4_Witness ==
    /\ lastOp.op = "set"
    /\ lastOp.res = "ok"
    /\ lastOp.compacted
    /\ DOMAIN index = {"a", "b"}
    /\ index["a"] = Loc(cur_gen - 1, 0, index["a"].end)
    /\ index["b"].start = index["a"].end

\* C5: a key removed with success and not set since is not found by get, and
\* removing it again fails with KeyNotFound; so too after a close and reopen
\* and after compactions.
C5_Tombstone ==
    handle = "open" =>
        \A k \in removed :
            /\ GetCall(Store, k) = NotFound
            /\ RemoveCall(Store, k, NoFault).res = "KeyNotFound"
            /\ (lastOp.op = "get" /\ lastOp.key = k) => lastOp.out = None

\* remove(a) failed on a key removed earlier, after a compaction dropped the
\* Remove record and the store was reopened
C5_Witness ==
    /\ handle = "open"
    /\ lastOp = Call("remove", "a", <<>>, "KeyNotFound", None, FALSE)
    /\ "a" \in removed
    /\ NoTombstone("a")
    /\ cur_gen >= 4

\* C6: remove(k) of a key that is not in the index fails with KeyNotFound and
\* changes neither a file nor a field of the store.
C6_RemoveAbsent ==
    [][(handle = "open" /\ lastOp'.op = "remove" /\ lastOp'.key \notin DOMAIN index) =>
           /\ lastOp'.res = "KeyNotFound"
           /\ UNCHANGED <<disk, unlinked, handle, writer, readers, cur_gen, index,
                          uncompacted>>]_vars

\* remove of a key that was set and removed before, on a store that holds records
C6_Witness ==
    /\ handle = "open"
    /\ lastOp.op = "remove"
    /\ lastOp.res = "KeyNotFound"
    /\ lastOp.key \in removed
    /\ DOMAIN index # {}
    /\ uncompacted > 0

\* C7: a set or a remove that returns an error leaves the index as it was
\* before the call.
C7_NoPartialSuccess ==
    [][(handle = "open" /\ lastOp'.op \in {"set", "remove"}
            /\ lastOp'.res \in {"io", "err", "KeyNotFound"}) =>
           index' = index]_vars

\* C8: get changes neither a file nor a field of the store and runs no
\* compaction; for a key that is not in the index it returns Ok(None).
C8_GetIsPure ==
    [][(handle = "open" /\ lastOp'.op = "get") =>
           /\ UNCHANGED <<disk, unlinked, handle, writer, readers, cur_gen, index,
                          uncompacted>>
           /\ lastOp'.key \notin DOMAIN index =>
                  (lastOp'.res = "ok" /\ lastOp'.out = None)]_vars

\* get of an absent key on a store whose counter is over the threshold
C8_Witness ==
    /\ handle = "open"
    /\ lastOp.op = "get"
    /\ lastOp.key \notin DOMAIN index
    /\ lastOp.res = "ok"
    /\ lastOp.out = None
    /\ uncompacted > COMPACTION_THRESHOLD

\* C9: an open on a directory in which a segment holds a truncated record, or
\* in which an I/O step of the replay fails, returns an error and no store,
\* exposes no index and creates no file.
C9_OpenAllOrNothing ==
    [][(handle = "closed" /\ lastOp'.op = "open"
            /\ (Corrupt(disk) \/ lastOp'.res = "io")) =>
           /\ lastOp'.res \in {"err", "io"}
           /\ handle' = "closed"
           /\ index' = EmptyIndex
           /\ readers' = {}
           /\ disk' = disk]_vars

\* open failed on a directory with a sound segment followed by a truncated one
C9_Witness ==
    /\ lastOp.op = "open"
    /\ lastOp.res = "err"
    /\ handle = "closed"
    /\ \E g, h \in DOMAIN disk :
          /\ g < h
          /\ disk[g] # <<>>
          /\ WholeRecords(disk[g])
          /\ ~WholeRecords(disk[h])

\* C10: on an open store every key of the index has a locator (g, start, end)
\* such that segment g exists, its bytes [start, end) are one serialized Set
\* record of that key, and that record is the last record of the key in log
\* order and carries the value of the most recent set of the key.
C10_IndexInvariant ==
    handle = "open" =>
        \A k \in DOMAIN index :
            LET loc == index[k]
                rs == LogFor(k)
            IN  /\ loc.gen \in DOMAIN disk
                /\ \E v \in Values :
                      /\ SubSeq(disk[loc.gen], loc.start + 1, loc.end)
                             = Serialize(SetCmd(k, v))
                      /\ model[k] = Some(v)
                /\ rs # <<>>
                /\ rs[Len(rs)].cmd.op = "S"
                /\ Loc(rs[Len(rs)].gen, rs[Len(rs)].start, rs[Len(rs)].end) = loc

\* both keys live, in different segments, one of them not at the start of its
\* segment, with a superseded record of the other still in the log
C10_Witness ==
    /\ handle = "open"
    /\ DOMAIN index = {"a", "b"}
    /\ index["a"].gen = cur_gen
    /\ index["b"].gen < cur_gen
    /\ index["b"].start > 0
    /\ Len(LogFor("a")) > 1

\* C11: every generation named by a locator of the index of an open store has
\* a file in the directory and an entry in the read-handle table, so that no
\* call ends in the missing-reader panic; and when the remove_file loop of a
\* compaction runs, no locator of the index names a generation it deletes.
C11_DeleteOnlyUnreferenced ==
    [][/\ handle' = "open" =>
              \A k \in DOMAIN index' :
                  index'[k].gen \in DOMAIN disk' /\ index'[k].gen \in readers'
       /\ lastOp'.res # "panic"
       /\ (handle = "open" /\ lastOp'.op = "set" /\ lastOp'.compacted) =>
              \A g \in Deleted(AtCompaction(lastOp')) :
                  \A k \in DOMAIN IndexAtRemoval(AtCompaction(lastOp')) :
                      IndexAtRemoval(AtCompaction(lastOp'))[k].gen # g]_vars

\* get found a value in the compaction segment after a compaction deleted the
\* segments of two earlier handles
C11_Witness ==
    /\ handle = "open"
    /\ lastOp.op = "get"
    /\ lastOp.res = "ok"
    /\ lastOp.out # None
    /\ cur_gen = 4
    /\ index[lastOp.key].gen = 3
    /\ DOMAIN disk = {3, 4}

\* C12: a set that ran a compaction with success from current generation G
\* leaves every locator of the index in generation G+1, the current generation
\* and the writer at G+2 with an empty segment, the read-handle table with the
\* keys G+1 and G+2, exactly the files G+1 and G+2 in the directory, and the
\* uncompacted counter at 0.
C12_CompactionPostcondition ==
    [][(handle = "open" /\ lastOp'.op = "set" /\ lastOp'.compacted
            /\ lastOp'.res = "ok") =>
           /\ \A k \in DOMAIN index' : index'[k].gen = cur_gen + 1
           /\ cur_gen' = cur_gen + 2
           /\ writer' = cur_gen + 2
           /\ readers' = {cur_gen + 1, cur_gen + 2}
           /\ DOMAIN disk' = {cur_gen + 1, cur_gen + 2}
           /\ disk'[cur_gen + 2] = <<>>
           /\ uncompacted' = 0]_vars

\* a compaction started at generation 2, with the segment of an earlier handle
\* in the directory, has just returned
C12_Witness ==
    /\ handle = "open"
    /\ lastOp.op = "set"
    /\ lastOp.res = "ok"
    /\ lastOp.compacted
    /\ cur_gen = 4
    /\ DOMAIN disk = {3, 4}
    /\ disk[3] # <<>>
    /\ disk[4] = <<>>
    /\ uncompacted = 0

\* C13: after a set that ran a compaction with success the compaction segment
\* C holds one record for every key of the index and nothing else: in
\* iteration order the first range starts at offset 0, every other range
\* starts where the one before it ended, the last range ends at the end of C,
\* every range is a Set record of its key and is as long as the range the key
\* had when the compaction started, and the size of C is the sum of those
\* lengths.
C13_CompactionTiles ==
    [][(handle = "open" /\ lastOp'.op = "set" /\ lastOp'.compacted
            /\ lastOp'.res = "ok") =>
           LET C == disk'[cur_gen + 1]
               pre == AtCompaction(lastOp').index
               live == LiveKeys(index')
           IN  /\ DOMAIN index' = DOMAIN pre
               /\ live # <<>>
               /\ \A i \in 1..Len(live) :
                      LET loc == index'[live[i]]
                      IN  /\ loc.start = IF i = 1 THEN 0 ELSE index'[live[i - 1]].end
                          /\ loc.end - loc.start
                                 = pre[live[i]].end - pre[live[i]].start
                          /\ \E v \in Values :
                                 SubSeq(C, loc.start + 1, loc.end)
                                     = Serialize(SetCmd(live[i], v))
               /\ index'[live[Len(live)]].end = Len(C)
               /\ Len(C) = SumLen(pre, LiveKeys(pre))]_vars

\* the compaction segment holds the 4-byte record of a and after it the 5-byte
\* record of b
C13_Witness ==
    /\ handle = "open"
    /\ lastOp.op = "set"
    /\ lastOp.res = "ok"
    /\ lastOp.compacted
    /\ DOMAIN index = {"a", "b"}
    /\ index["a"] = Loc(cur_gen - 1, 0, 4)
    /\ index["b"] = Loc(cur_gen - 1, 4, 9)
    /\ Len(disk[cur_gen - 1]) = 9

\* C14: an open that succeeds sets the current generation to one more than the
\* highest generation of the directory (1 when there is none), a generation
\* with no file yet; a compaction raises the current generation by 2 and no
\* other call changes it; on an open store the current generation is greater
\* than the generation of every other segment file; and no create_new of a
\* set's compaction meets an existing file (the call would return the I/O
\* error).
C14_GenerationsIncrease ==
    [][/\ (handle = "closed" /\ lastOp'.op = "open" /\ lastOp'.res = "ok") =>
              /\ cur_gen' = IF DOMAIN disk = {} THEN 1 ELSE Max(DOMAIN disk) + 1
              /\ cur_gen' \notin DOMAIN disk
       /\ (handle = "open" /\ handle' = "open") =>
              cur_gen' = IF lastOp'.compacted THEN cur_gen + 2 ELSE cur_gen
       /\ (handle = "open" /\ lastOp'.op = "set") =>
              /\ lastOp'.res = "ok"
              /\ lastOp'.compacted =>
                     /\ (cur_gen + 1) \notin DOMAIN AtCompaction(lastOp').disk
                     /\ (cur_gen + 2) \notin DOMAIN AtCompaction(lastOp').disk
       /\ handle' = "open" =>
              /\ cur_gen' \in DOMAIN disk'
              /\ \A g \in DOMAIN disk' \ {cur_gen'} : g < cur_gen']_vars

\* a store was compacted (segments 2 and 3), closed and opened again at
\* generation 4
C14_Witness ==
    /\ handle = "open"
    /\ lastOp.op = "open"
    /\ lastOp.res = "ok"
    /\ down = "close"
    /\ cur_gen = 4
    /\ DOMAIN disk = {2, 3, 4}
    /\ disk[2] # <<>>

\* C15: a set runs the compaction, before it returns, exactly when the
\* uncompacted counter plus the length of the record it wrote is strictly
\* greater than the threshold; a set that does not compact leaves the counter
\* raised by that length; on return from a successful set the counter is at
\* most the threshold; remove and get run no compaction (the current
\* generation, the set of segment files and the counter stay as they were).
C15_CompactionTrigger ==
    [][/\ (handle = "open" /\ lastOp'.op = "set") =>
              LET len == Len(Serialize(SetCmd(lastOp'.key, lastOp'.val)))
              IN  /\ lastOp'.compacted <=> (uncompacted + len > COMPACTION_THRESHOLD)
                  /\ lastOp'.compacted <=> (cur_gen' = cur_gen + 2)
                  /\ lastOp'.compacted <=> ((cur_gen + 1) \in DOMAIN disk')
                  /\ ~lastOp'.compacted => uncompacted' = uncompacted + len
                  /\ lastOp'.res = "ok" => uncompacted' <= COMPACTION_THRESHOLD
       /\ (handle = "open" /\ lastOp'.op \in {"get", "remove"}) =>
              /\ ~lastOp'.compacted
              /\ cur_gen' = cur_gen
              /\ DOMAIN disk' = DOMAIN disk
              /\ uncompacted' = uncompacted]_vars

\* a set of 4 bytes compacted a reopened store whose counter the replay had
\* put at 4
C15_Witness ==
    /\ handle = "open"
    /\ lastOp.op = "set"
    /\ lastOp.res = "ok"
    /\ lastOp.compacted
    /\ cur_gen = 4
    /\ DOMAIN index = {"a"}
    /\ Len(disk[3]) = 4
    /\ uncompacted = 0

\* C16: on an open store the uncompacted counter is the number of bytes that
\* the stale records of all segments occupy (every superseded Set record and
\* every Remove record on disk), and it is zero right after a successful
\* compaction.
C16_CounterIsStaleBytes ==
    /\ handle = "open" => uncompacted = StaleBytes(disk, index)
    /\ (handle = "open" /\ lastOp.op = "set" /\ lastOp.res = "ok" /\ lastOp.compacted) =>
           uncompacted = 0

\* C16 as amended: the counter is a running total of bytes written, not of
\* stale bytes.  A successful open sets it to the total size of the segments
\* it replayed, live records included; a successful set that runs no
\* compaction raises it by the length of the Set record it wrote; remove and
\* get leave it unchanged; it is zero right after a successful compaction.
C16_CounterIsBytesWritten ==
    [][/\ (handle = "closed" /\ lastOp'.op = "open" /\ lastOp'.res = "ok") =>
              uncompacted' = TotalBytes(disk)
       /\ (handle = "open" /\ lastOp'.op = "set" /\ lastOp'.res = "ok") =>
              uncompacted' = IF lastOp'.compacted THEN 0
                             ELSE uncompacted
                                      + Len(Serialize(SetCmd(lastOp'.key, lastOp'.val)))
       /\ (handle = "open" /\ lastOp'.op \in {"get", "remove"}
              /\ lastOp'.res # "panic") =>
              uncompacted' = uncompacted]_vars

\* remove(a) after set(a, "1"), after a reopen that had counted the live record
\* of b: the counter is 9 (5 replayed, 4 written by set), 7 bytes are stale
C16_Witness ==
    /\ handle = "open"
    /\ lastOp = Call("remove", "a", <<>>, "ok", None, FALSE)
    /\ DOMAIN index = {"b"}
    /\ uncompacted = 9
    /\ StaleBytes(disk, index) = 7
    /\ TotalBytes(disk) = 12

\* C17: when the process stops between two whole steps of the compaction that
\* a set runs (the compaction segment holds any number of whole records, or
\* it is complete and any number of the old segments are deleted, oldest
\* first, or all are deleted and the new current segment is not yet
\* created), open on the directory it leaves succeeds and rebuilds the
\* mapping that held when the compaction began: the mapping of the calls that
\* succeeded with the set applied.
C17_CompactionCrashSafe ==
    [][/\ (handle = "open" /\ lastOp'.op = "crash" /\ lastOp'.compacted
              /\ ~Corrupt(disk')) =>
              /\ OpenCall(disk', NoFault).res = "ok"
              /\ MapOf(OpenCall(disk', NoFault).st)
                     = [model EXCEPT ![lastOp'.key] = Some(lastOp'.val)]
       /\ (handle = "closed" /\ lastOp.op = "crash" /\ lastOp.compacted
              /\ ~Corrupt(disk) /\ lastOp'.op = "open" /\ lastOp'.res # "io") =>
              /\ lastOp'.res = "ok"
              /\ MapOf(Store)'[lastOp.key] = Some(lastOp.val)
              /\ MapOf(Store)' \in hist]_vars

\* the store was opened after a crash in a compaction that had deleted
\* segment 1, which held the Set of a, and not yet segment 2, which holds the
\* Remove of a
C17_Witness ==
    /\ handle = "open"
    /\ lastOp.op = "open"
    /\ lastOp.res = "ok"
    /\ down = "crash"
    /\ DOMAIN disk = {2, 3, 4}
    /\ disk[2] = Serialize(RemoveCmd("a")) \o Serialize(SetCmd("b", <<"1">>))
    /\ disk[3] = Serialize(SetCmd("b", <<"1">>))
    /\ DOMAIN index = {"b"}
    /\ index["b"] = Loc(3, 0, 4)

\* C18: a get of a key whose locator names the bytes of a Remove record fails
\* with an error; it does not return the not-found result.
C18_NonSetIsFatal ==
    [][(handle = "open" /\ lastOp'.op = "get" /\ lastOp'.key \in DOMAIN index
            /\ \E k \in Keys :
                   ReadRange(Content(disk, unlinked, index[lastOp'.key].gen),
                             index[lastOp'.key].start, index[lastOp'.key].end)
                       = Serialize(RemoveCmd(k))) =>
           lastOp'.res # "ok"]_vars

====
